---- MODULE Spec2Model ----
(***************************************************************************)
(* Model of ascii-img-render.py: the two argument converters               *)
(* (parse_resolution, hex_to_rgb) as operators over character sequences,   *)
(* and the __main__ pipeline as a sequential state machine: argument       *)
(* parsing, path checks, font load, canvas creation, the temporary         *)
(* directory block with the two external commands, the draw loop and save. *)
(* Strings are sequences of one-character strings.                         *)
(***************************************************************************)
EXTENDS Integers, Sequences, FiniteSets, TLC

VARIABLES
    pc,            \* position in __main__ (or in the converter harness)
    args,          \* the argparse namespace: preset, resolution, color, bg
    exit_code,     \* process exit status, -1 while running
    failure,       \* which error path ended the run ("none" while running / on success)
    fg,            \* args.color after hex_to_rgb
    bg_color,      \* args.bg after hex_to_rgb
    canvas,        \* <<canvas_w, canvas_h>>
    output_path,   \* "given" or "fallback" (cwd / name)
    output_is_dir, \* "unchecked", "dir", "notdir": result of the test on line 93
    font_loaded,   \* ImageFont.truetype returned
    img_created,   \* Image.new returned
    cell,          \* <<char_w, char_h>>
    tmp,           \* the temporary directory: [exists, files]
    tmp_created,   \* the with-block was entered
    resize_calls,  \* number of subprocess.run(resize_cmd) calls
    resize_result, \* "none", "ok", "nonzero", "missing"
    convert_calls, \* number of subprocess.run(ascii_cmd) calls
    convert_dims,  \* the --dimensions pair put in ascii_cmd
    div_zero,      \* a // with divisor 0 was evaluated
    text,          \* content of cropped-ascii-art.txt as read
    lines,         \* the list the draw loop iterates
    i,             \* draw loop index
    drawn,         \* draw.text calls made so far, in order
    saved,         \* img.save returned
    hex_in, hex_out,   \* hex_to_rgb harness: argument and result
    res_in, res_out    \* parse_resolution harness: argument and result

vars == <<pc, args, exit_code, failure, fg, bg_color, canvas, output_path,
          output_is_dir, font_loaded, img_created, cell, tmp, tmp_created,
          resize_calls, resize_result, convert_calls, convert_dims, div_zero,
          text, lines, i, drawn, saved, hex_in, hex_out, res_in, res_out>>

----------------------------------------------------------------------------
(* Bounds *)

MaxTokenLen == 6     \* longest color token given to hex_to_rgb
MaxResLen == 5       \* longest resolution string given to parse_resolution
MaxCell == 2         \* largest measured glyph width / height
MaxText == 6         \* longest converter output file, in characters

----------------------------------------------------------------------------
(* Characters and Python's int(str, base) *)

HexLower == <<"0","1","2","3","4","5","6","7","8","9","a","b","c","d","e","f">>
HexUpper == <<"0","1","2","3","4","5","6","7","8","9","A","B","C","D","E","F">>
Whitespace == {" ", "\t", "\n"}

\* value of a digit character, -1 for a character that is no digit
DigitVal(c) ==
    IF \E k \in 1..16 : HexLower[k] = c
    THEN (CHOOSE k \in 1..16 : HexLower[k] = c) - 1
    ELSE IF \E k \in 1..16 : HexUpper[k] = c
         THEN (CHOOSE k \in 1..16 : HexUpper[k] = c) - 1
         ELSE -1

IsDigit(c, base) == DigitVal(c) >= 0 /\ DigitVal(c) < base

RECURSIVE lstrip(_, _)
lstrip(s, cs) ==
    IF s # <<>> /\ Head(s) \in cs THEN lstrip(Tail(s), cs) ELSE s

RECURSIVE rstrip(_, _)
rstrip(s, cs) ==
    IF s # <<>> /\ s[Len(s)] \in cs
    THEN rstrip(SubSeq(s, 1, Len(s) - 1), cs)
    ELSE s

\* str.lower() on the letters that occur in the modelled inputs
lower_char(c) ==
    IF c = "X" THEN "x"
    ELSE IF \E k \in 11..16 : HexUpper[k] = c
         THEN HexLower[CHOOSE k \in 11..16 : HexUpper[k] = c]
         ELSE c

lower(s) == [k \in 1..Len(s) |-> lower_char(s[k])]

\* str.split(sep) for a one-character separator
RECURSIVE split(_, _)
split(s, sep) ==
    IF \E k \in 1..Len(s) : s[k] = sep
    THEN LET k == CHOOSE k \in 1..Len(s) :
                     s[k] = sep /\ \A j \in 1..(k - 1) : s[j] # sep
         IN  <<SubSeq(s, 1, k - 1)>> \o split(SubSeq(s, k + 1, Len(s)), sep)
    ELSE <<s>>

\* digits with single underscores between them
ValidDigits(d, base) ==
    /\ d # <<>>
    /\ \A k \in 1..Len(d) :
          \/ IsDigit(d[k], base)
          \/ d[k] = "_" /\ k > 1 /\ k < Len(d) /\ d[k - 1] # "_"

RECURSIVE DigitsValue(_, _, _)
DigitsValue(d, base, acc) ==
    IF d = <<>> THEN acc
    ELSE IF Head(d) = "_" THEN DigitsValue(Tail(d), base, acc)
         ELSE DigitsValue(Tail(d), base, acc * base + DigitVal(Head(d)))

\* int(s, base): surrounding whitespace, an optional sign, for base 16 an
\* optional 0x prefix, then digits; [ok |-> FALSE] stands for ValueError
int(s, base) ==
    LET t  == rstrip(lstrip(s, Whitespace), Whitespace)
        neg == t # <<>> /\ Head(t) = "-"
        u  == IF t # <<>> /\ Head(t) \in {"+", "-"} THEN Tail(t) ELSE t
        pre == base = 16 /\ Len(u) >= 2 /\ u[1] = "0" /\ u[2] \in {"x", "X"}
        v  == IF pre THEN SubSeq(u, 3, Len(u)) ELSE u
        d  == IF pre /\ v # <<>> /\ Head(v) = "_" THEN Tail(v) ELSE v
    IN  IF ValidDigits(d, base)
        THEN [ok |-> TRUE,
              val |-> IF neg THEN 0 - DigitsValue(d, base, 0)
                      ELSE DigitsValue(d, base, 0)]
        ELSE [ok |-> FALSE, val |-> 0]

----------------------------------------------------------------------------
(* The argument converters *)

PRESETS == [p \in {"1080p", "720p", "4k"} |->
              CASE p = "1080p" -> <<1920, 1080>>
                [] p = "720p"  -> <<1280, 720>>
                [] p = "4k"    -> <<3840, 2160>>]

NoValue == <<0, 0, 0>>

parse_resolution(res_str) ==
    LET parts == split(lower(res_str), "x")
        w == int(parts[1], 10)
        h == int(parts[2], 10)
    IN  IF Len(parts) = 2 /\ w.ok /\ h.ok
        THEN [ok |-> TRUE, val |-> <<w.val, h.val>>, err |-> ""]
        ELSE [ok |-> FALSE, val |-> <<0, 0>>, err |-> "ArgumentTypeError"]

\* ''.join([c*2 for c in hex_str])
Expand3_Repeat(hex_str) == hex_str \o hex_str
Expand3(hex_str) ==
    [k \in 1..(2 * Len(hex_str)) |-> hex_str[(k + 1) \div 2]]

hex_to_rgb(hex_str) ==
    LET s1 == lstrip(hex_str, {"#"})
        s2 == IF Len(s1) = 3 THEN Expand3(s1) ELSE s1
        r  == int(SubSeq(s2, 1, 2), 16)
        g  == int(SubSeq(s2, 3, 4), 16)
        b  == int(SubSeq(s2, 5, 6), 16)
    IN  IF Len(s2) # 6
        THEN [ok |-> FALSE, val |-> NoValue, err |-> "ArgumentTypeError"]
        ELSE IF r.ok /\ g.ok /\ b.ok
             THEN [ok |-> TRUE, val |-> <<r.val, g.val, b.val>>, err |-> ""]
             ELSE [ok |-> FALSE, val |-> NoValue, err |-> "ValueError"]

----------------------------------------------------------------------------
(* Inputs of the modelled runs *)

None == <<>>

\* -p values tried on the command line ("8k" is not among the choices)
PresetArgs == {"1080p", "720p", "4k", "8k"}

\* -r values tried on the command line
ResArgs == { <<"4","x","2">>, <<"1","X","2">>, <<"0","x","2">>,
             <<"-","1","x","2">>, <<"4","2">> }

\* -c values: the default ffffff, a short form, a signed group, a bad length
ColorArgs == { <<"f","f","f","f","f","f">>, <<"f","0","0">>,
               <<"0","0","-","f","0","0">>, <<"f","0">> }

\* -B values: the default 000000 and a token with a non-hex character
BgArgs == { <<"0","0","0","0","0","0">>, <<"0","0","g">> }

ColorAlphabet == {"0", "f", "A", "-", "+", " ", "#"}
ResAlphabet == {"0", "1", "2", "x", "X", "-", " "}
TextAlphabet == {"@", "\n"}

Tokens(A, n) == UNION { [1..k -> A] : k \in 0..n }

----------------------------------------------------------------------------
(* Exit statuses and control flow of __main__ *)

ArgparseErrorStatus == 2    \* parser.error() -> sys.exit(2)
FailureStatus == 1          \* sys.exit(1), and an uncaught exception
SuccessStatus == 0          \* falling off the end of the script

\* parse_args: every type= converter accepted its token, the preset is one
\* of the choices and exactly one of -p / -r was given
ArgsAccepted(preset, res, color, bg) ==
    /\ (preset = "None") # (res = None)
    /\ preset = "None" \/ preset \in DOMAIN PRESETS
    /\ res = None \/ parse_resolution(res).ok
    /\ hex_to_rgb(color).ok
    /\ hex_to_rgb(bg).ok

\* lines 85-95: where the output path checks lead
AfterOutputCheck_NoDirTest(parent_exists, is_dir) ==
    IF ~parent_exists THEN "exited" ELSE "load_font"
AfterOutputCheck(parent_exists, is_dir) ==
    IF ~parent_exists THEN "exited"
    ELSE IF is_dir THEN "exited" ELSE "load_font"

\* TemporaryDirectory.__exit__: the directory and its content are removed
TemporaryDirectoryExit_Leak(t) == t
TemporaryDirectoryExit(t) == [exists |-> FALSE, files |-> {}]

\* the --dimensions value of ascii_cmd
GridSize(cv, c) == <<cv[1] \div c[1], cv[2] \div c[2]>>

\* subprocess.run(..., check=True) inside the try: what runs next
AfterResize_Unchecked(outcome) == "run_convert"
AfterResize(outcome) == IF outcome = "ok" THEN "run_convert" ELSE "exited"

AfterConvert(outcome) == IF outcome = "ok" THEN "read_lines" ELSE "exited"

\* txt_path.read_text().rstrip('\n').split('\n')
ReadLinesOf(t) == split(rstrip(t, {"\n"}), "\n")

\* the position argument of draw.text for row i
DrawPosition_OneBased(k, char_h) == <<0, (k + 1) * char_h>>
DrawPosition(k, char_h) == <<0, k * char_h>>

----------------------------------------------------------------------------
(* __main__ *)

Defaults ==
    /\ args = [preset |-> "None", resolution |-> None, color |-> None, bg |-> None]
    /\ exit_code = -1
    /\ failure = "none"
    /\ fg = NoValue
    /\ bg_color = NoValue
    /\ canvas = <<0, 0>>
    /\ output_path = "given"
    /\ output_is_dir = "unchecked"
    /\ font_loaded = FALSE
    /\ img_created = FALSE
    /\ cell = <<0, 0>>
    /\ tmp = [exists |-> FALSE, files |-> {}]
    /\ tmp_created = FALSE
    /\ resize_calls = 0
    /\ resize_result = "none"
    /\ convert_calls = 0
    /\ convert_dims = <<0, 0>>
    /\ div_zero = FALSE
    /\ text = <<>>
    /\ lines = <<>>
    /\ i = 0
    /\ drawn = <<>>
    /\ saved = FALSE

NoColor == [ok |-> FALSE, val |-> NoValue, err |-> ""]
NoResolution == [ok |-> FALSE, val |-> <<0, 0>>, err |-> ""]

Init ==
    /\ pc = "parse_args"
    /\ Defaults
    /\ hex_in = <<>> /\ hex_out = NoColor
    /\ res_in = <<>> /\ res_out = NoResolution

\* the run ends with the given status on the given error path
Exit(status, why) ==
    /\ pc' = "exited"
    /\ exit_code' = status
    /\ failure' = why

harness == <<hex_in, hex_out, res_in, res_out>>

\* lines 55-68
ParseArgs ==
    /\ pc = "parse_args"
    /\ \E preset \in PresetArgs \cup {"None"}, res \in ResArgs \cup {None},
          color \in ColorArgs, bg \in BgArgs :
          IF ArgsAccepted(preset, res, color, bg)
          THEN /\ args' = [preset |-> preset,
                           resolution |-> IF res = None THEN None
                                          ELSE parse_resolution(res).val,
                           color |-> hex_to_rgb(color).val,
                           bg |-> hex_to_rgb(bg).val]
               /\ pc' = "check_input"
               /\ UNCHANGED <<exit_code, failure>>
          ELSE /\ Exit(ArgparseErrorStatus, "argparse")
               /\ UNCHANGED args
    /\ UNCHANGED <<fg, bg_color, canvas, output_path, output_is_dir,
                   font_loaded, img_created, cell, tmp, tmp_created,
                   resize_calls, resize_result, convert_calls, convert_dims,
                   div_zero, text, lines, i, drawn, saved, harness>>

\* lines 70-80
CheckInput ==
    /\ pc = "check_input"
    /\ \E exists \in BOOLEAN, is_file \in BOOLEAN :
          IF ~exists \/ ~is_file
          THEN Exit(FailureStatus, "input") /\ UNCHANGED canvas
          ELSE /\ canvas' = IF args.preset # "None" THEN PRESETS[args.preset]
                            ELSE args.resolution
               /\ pc' = "check_output"
               /\ UNCHANGED <<exit_code, failure>>
    /\ UNCHANGED <<args, fg, bg_color, output_path, output_is_dir,
                   font_loaded, img_created, cell, tmp, tmp_created,
                   resize_calls, resize_result, convert_calls, convert_dims,
                   div_zero, text, lines, i, drawn, saved, harness>>

\* lines 82-95
CheckOutput ==
    /\ pc = "check_output"
    /\ \E parent_exists \in BOOLEAN, writable \in BOOLEAN,
          given_is_dir \in BOOLEAN, fallback_is_dir \in BOOLEAN :
          LET is_dir == IF writable THEN given_is_dir ELSE fallback_is_dir
              next == AfterOutputCheck(parent_exists, is_dir)
          IN  /\ IF parent_exists
                 THEN /\ output_path' = IF writable THEN "given" ELSE "fallback"
                      /\ output_is_dir' = IF is_dir THEN "dir" ELSE "notdir"
                 ELSE UNCHANGED <<output_path, output_is_dir>>
              /\ IF next = "exited"
                 THEN Exit(FailureStatus, "output")
                 ELSE pc' = next /\ UNCHANGED <<exit_code, failure>>
    /\ UNCHANGED <<args, fg, bg_color, canvas, font_loaded, img_created,
                   cell, tmp, tmp_created, resize_calls, resize_result,
                   convert_calls, convert_dims, div_zero, text, lines, i,
                   drawn, saved, harness>>

\* lines 97-102
LoadFont ==
    /\ pc = "load_font"
    /\ \E loaded \in BOOLEAN :
          IF loaded
          THEN /\ font_loaded' = TRUE
               /\ pc' = "new_image"
               /\ UNCHANGED <<exit_code, failure>>
          ELSE Exit(FailureStatus, "font") /\ UNCHANGED font_loaded
    /\ UNCHANGED <<args, fg, bg_color, canvas, output_path, output_is_dir,
                   img_created, cell, tmp, tmp_created, resize_calls,
                   resize_result, convert_calls, convert_dims, div_zero,
                   text, lines, i, drawn, saved, harness>>

\* lines 104-111; Image.new raises ValueError for a negative size
NewImage ==
    /\ pc = "new_image"
    /\ fg' = args.color
    /\ bg_color' = args.bg
    /\ IF canvas[1] < 0 \/ canvas[2] < 0
       THEN Exit(FailureStatus, "image") /\ UNCHANGED <<img_created, cell>>
       ELSE /\ img_created' = TRUE
            /\ \E char_w \in 0..MaxCell, char_h \in 0..MaxCell :
                  cell' = <<char_w, char_h>>
            /\ pc' = "enter_tmp"
            /\ UNCHANGED <<exit_code, failure>>
    /\ UNCHANGED <<args, canvas, output_path, output_is_dir, font_loaded,
                   tmp, tmp_created, resize_calls, resize_result,
                   convert_calls, convert_dims, div_zero, text, lines, i,
                   drawn, saved, harness>>

\* line 113
EnterTmp ==
    /\ pc = "enter_tmp"
    /\ tmp' = [exists |-> TRUE, files |-> {}]
    /\ tmp_created' = TRUE
    /\ pc' = "build_cmds"
    /\ UNCHANGED <<args, exit_code, failure, fg, bg_color, canvas,
                   output_path, output_is_dir, font_loaded, img_created,
                   cell, resize_calls, resize_result, convert_calls,
                   convert_dims, div_zero, text, lines, i, drawn, saved,
                   harness>>

\* lines 114-118; a zero char_w or char_h raises ZeroDivisionError, which
\* leaves the with-block
BuildCmds ==
    /\ pc = "build_cmds"
    /\ IF cell[1] = 0 \/ cell[2] = 0
       THEN /\ div_zero' = TRUE
            /\ tmp' = TemporaryDirectoryExit(tmp)
            /\ Exit(FailureStatus, "divzero")
            /\ UNCHANGED convert_dims
       ELSE /\ convert_dims' = GridSize(canvas, cell)
            /\ pc' = "run_resize"
            /\ UNCHANGED <<div_zero, tmp, exit_code, failure>>
    /\ UNCHANGED <<args, fg, bg_color, canvas, output_path, output_is_dir,
                   font_loaded, img_created, cell, tmp_created, resize_calls,
                   resize_result, convert_calls, text, lines, i, drawn,
                   saved, harness>>

\* line 121 and, for a non-zero exit, lines 123-125; a missing binary is a
\* FileNotFoundError that no handler catches
RunResize ==
    /\ pc = "run_resize"
    /\ \E outcome \in {"ok", "nonzero", "missing"} :
          /\ resize_calls' = resize_calls + 1
          /\ resize_result' = outcome
          /\ IF AfterResize(outcome) = "exited"
             THEN /\ tmp' = TemporaryDirectoryExit(tmp)
                  /\ Exit(FailureStatus, "resize")
             ELSE /\ tmp' = [tmp EXCEPT !.files = IF outcome = "ok"
                                                  THEN @ \cup {"cropped"}
                                                  ELSE @]
                  /\ pc' = AfterResize(outcome)
                  /\ UNCHANGED <<exit_code, failure>>
    /\ UNCHANGED <<args, fg, bg_color, canvas, output_path, output_is_dir,
                   font_loaded, img_created, cell, tmp_created,
                   convert_calls, convert_dims, div_zero, text, lines, i,
                   drawn, saved, harness>>

\* line 122 and, for a non-zero exit, lines 123-125; the converter is a
\* black box: it may or may not leave cropped-ascii-art.txt, with any content
RunConvert ==
    /\ pc = "run_convert"
    /\ \E outcome \in {"ok", "nonzero", "missing"} :
          /\ convert_calls' = convert_calls + 1
          /\ IF AfterConvert(outcome) = "exited"
             THEN /\ tmp' = TemporaryDirectoryExit(tmp)
                  /\ Exit(FailureStatus, "convert")
                  /\ UNCHANGED text
             ELSE /\ \E wrote \in BOOLEAN, content \in Tokens(TextAlphabet, MaxText) :
                        IF wrote
                        THEN /\ tmp' = [tmp EXCEPT !.files = @ \cup {"cropped-ascii-art.txt"}]
                             /\ text' = content
                        ELSE UNCHANGED <<tmp, text>>
                  /\ pc' = AfterConvert(outcome)
                  /\ UNCHANGED <<exit_code, failure>>
    /\ UNCHANGED <<args, fg, bg_color, canvas, output_path, output_is_dir,
                   font_loaded, img_created, cell, tmp_created, resize_calls,
                   resize_result, convert_dims, div_zero, lines, i, drawn,
                   saved, harness>>

\* lines 127-128 and the end of the with-block
ReadLines ==
    /\ pc = "read_lines"
    /\ tmp' = TemporaryDirectoryExit(tmp)
    /\ IF "cropped-ascii-art.txt" \in tmp.files
       THEN /\ lines' = ReadLinesOf(text)
            /\ i' = 0
            /\ pc' = "draw"
            /\ UNCHANGED <<exit_code, failure>>
       ELSE Exit(FailureStatus, "read") /\ UNCHANGED <<lines, i>>
    /\ UNCHANGED <<args, fg, bg_color, canvas, output_path, output_is_dir,
                   font_loaded, img_created, cell, tmp_created, resize_calls,
                   resize_result, convert_calls, convert_dims, div_zero,
                   text, drawn, saved, harness>>

\* lines 131-132, one iteration
DrawLine ==
    /\ pc = "draw"
    /\ i < Len(lines)
    /\ drawn' = Append(drawn, [pos |-> DrawPosition(i, cell[2]),
                               line |-> lines[i + 1],
                               fill |-> fg])
    /\ i' = i + 1
    /\ UNCHANGED <<pc, args, exit_code, failure, fg, bg_color, canvas,
                   output_path, output_is_dir, font_loaded, img_created,
                   cell, tmp, tmp_created, resize_calls, resize_result,
                   convert_calls, convert_dims, div_zero, text, lines,
                   saved, harness>>

SaveStatus_AlwaysZero(outcome) == SuccessStatus
SaveStatus(outcome) == IF outcome = "ok" THEN SuccessStatus ELSE FailureStatus

\* lines 134-146
Save ==
    /\ pc = "draw"
    /\ i >= Len(lines)
    /\ \E outcome \in {"ok", "PermissionError", "ValueError", "OSError"} :
          /\ saved' = (outcome = "ok")
          /\ Exit(SaveStatus(outcome), IF outcome = "ok" THEN "none" ELSE "save")
    /\ UNCHANGED <<args, fg, bg_color, canvas, output_path, output_is_dir,
                   font_loaded, img_created, cell, tmp, tmp_created,
                   resize_calls, resize_result, convert_calls, convert_dims,
                   div_zero, text, lines, i, drawn, harness>>

Next ==
    \/ ParseArgs
    \/ CheckInput
    \/ CheckOutput
    \/ LoadFont
    \/ NewImage
    \/ EnterTmp
    \/ BuildCmds
    \/ RunResize
    \/ RunConvert
    \/ ReadLines
    \/ DrawLine
    \/ Save

Spec == Init /\ [][Next]_vars

----------------------------------------------------------------------------
(* hex_to_rgb on its own: every token over ColorAlphabet up to MaxTokenLen *)

InitColor ==
    /\ pc = "call_hex_to_rgb"
    /\ Defaults
    /\ hex_in \in Tokens(ColorAlphabet, MaxTokenLen)
    /\ hex_out = NoColor
    /\ res_in = <<>> /\ res_out = NoResolution

main == <<args, exit_code, failure, fg, bg_color, canvas, output_path,
          output_is_dir, font_loaded, img_created, cell, tmp, tmp_created,
          resize_calls, resize_result, convert_calls, convert_dims, div_zero,
          text, lines, i, drawn, saved>>

CallHexToRgb ==
    /\ pc = "call_hex_to_rgb"
    /\ hex_out' = hex_to_rgb(hex_in)
    /\ pc' = "returned"
    /\ UNCHANGED <<main, hex_in, res_in, res_out>>

NextColor == CallHexToRgb

SpecColor == InitColor /\ [][NextColor]_vars

(* parse_resolution on its own: every string over ResAlphabet up to MaxResLen *)

InitRes ==
    /\ pc = "call_parse_resolution"
    /\ Defaults
    /\ res_in \in Tokens(ResAlphabet, MaxResLen)
    /\ res_out = NoResolution
    /\ hex_in = <<>> /\ hex_out = NoColor

CallParseResolution ==
    /\ pc = "call_parse_resolution"
    /\ res_out' = parse_resolution(res_in)
    /\ pc' = "returned"
    /\ UNCHANGED <<main, hex_in, hex_out, res_in>>

NextRes == CallParseResolution

SpecRes == InitRes /\ [][NextRes]_vars

----------------------------------------------------------------------------
(* Properties *)

C2_OnlyPositiveDimensions ==
    (pc = "returned" /\ res_out.ok) =>
        /\ Cardinality({k \in 1..Len(res_in) : res_in[k] \in {"x", "X"}}) = 1
        /\ res_out.val[1] > 0
        /\ res_out.val[2] > 0

\* C3: for a canvas of positive size the converter is only ever invoked
\* with the floor quotients, and never with a 0 column or row count.
C3_GridNeverZero ==
    (convert_calls > 0 /\ canvas[1] >= 1 /\ canvas[2] >= 1) =>
        /\ convert_dims[1] * cell[1] <= canvas[1]
        /\ canvas[1] < (convert_dims[1] + 1) * cell[1]
        /\ convert_dims[2] * cell[2] <= canvas[2]
        /\ canvas[2] < (convert_dims[2] + 1) * cell[2]
        /\ convert_dims[1] # 0
        /\ convert_dims[2] # 0

\* C4: when the process has terminated, the temporary directory and the
\* intermediate files in it no longer exist, whatever path ended the run.
C4_TmpRemovedAtExit ==
    pc = "exited" => ~tmp.exists /\ tmp.files = {}

C4_Witness ==
    /\ pc = "exited" /\ tmp_created /\ failure = "convert"
    /\ resize_result = "ok" /\ ~tmp.exists

\* C5: once the output path (after the fallback) is found to be a directory,
\* the run has exited with a failure and no rendering work was or will be
\* done: no font, no canvas, no external tool, no drawing, no save.
C5_DirectoryOutputStopsEarly ==
    output_is_dir = "dir" =>
        /\ pc = "exited" /\ exit_code = 1
        /\ ~font_loaded /\ ~img_created
        /\ resize_calls = 0 /\ convert_calls = 0
        /\ drawn = <<>> /\ ~saved

C5_Witness ==
    output_is_dir = "dir" /\ output_path = "fallback" /\ pc = "exited"

\* C6: every token hex_to_rgb accepts yields three channels in 0..255.
C6_ChannelsInRange ==
    (pc = "returned" /\ hex_out.ok) =>
        \A k \in 1..3 : hex_out.val[k] \in 0..255

\* a token made of leading markers followed by exactly three hex digits
IsShortHex(t) ==
    /\ Len(t) >= 3
    /\ \A k \in 1..Len(t) :
          IF k > Len(t) - 3 THEN IsDigit(t[k], 16) ELSE t[k] = "#"

\* C7: for a 3-digit hex token d1 d2 d3, with or without the marker,
\* hex_to_rgb returns what it returns for d1 d1 d2 d2 d3 d3.
C7_ShortFormIsDoubled ==
    (pc = "returned" /\ IsShortHex(hex_in)) =>
        LET n  == Len(hex_in)
            d1 == hex_in[n - 2]
            d2 == hex_in[n - 1]
            d3 == hex_in[n]
        IN  /\ hex_out.ok
            /\ hex_out = hex_to_rgb(<<d1, d1, d2, d2, d3, d3>>)
            /\ hex_out.val = <<17 * DigitVal(d1), 17 * DigitVal(d2),
                               17 * DigitVal(d3)>>

C7_Witness ==
    /\ pc = "returned" /\ hex_in = <<"#", "f", "0", "0">>
    /\ hex_out.val = <<255, 0, 0>>

\* a text of R rows of C characters, each row ended by a newline (the last
\* newline may be absent)
IsGrid(t, R, C) ==
    /\ Len(t) \in {R * (C + 1) - 1, R * (C + 1)}
    /\ \A p \in 1..Len(t) : (t[p] = "\n") <=> (p % (C + 1) = 0)

\* C8: for a converter output of R rows and C columns the draws made so far
\* are rows 0, 1, ... in order, row i at (0, i * char_h), and when the loop
\* is over exactly R draws were made.
C8_RowsDrawnInOrder ==
    \A R \in 1..MaxText, C \in 1..MaxText :
        IsGrid(text, R, C) =>
            /\ Len(drawn) <= R
            /\ \A k \in 1..Len(drawn) :
                  /\ drawn[k].pos = <<0, (k - 1) * cell[2]>>
                  /\ drawn[k].line = SubSeq(text, (k - 1) * (C + 1) + 1,
                                            (k - 1) * (C + 1) + C)
            /\ (pc = "exited" /\ failure \in {"none", "save"}) =>
                  Len(drawn) = R

C8_Witness ==
    /\ pc = "exited" /\ saved /\ IsGrid(text, 3, 1)
    /\ cell[2] = 2 /\ Len(drawn) = 3 /\ drawn[3].pos = <<0, 4>>

\* C9: each external tool runs at most once, the converter only after a
\* successful resize, and a failed external step ends the run with nothing
\* drawn and nothing saved.
C9_ToolsOnceInOrder ==
    /\ resize_calls <= 1 /\ convert_calls <= 1
    /\ convert_calls = 1 => resize_calls = 1 /\ resize_result = "ok"
    /\ resize_result \in {"nonzero", "missing"} =>
          pc = "exited" /\ convert_calls = 0
    /\ failure \in {"resize", "convert"} =>
          pc = "exited" /\ exit_code # 0 /\ drawn = <<>> /\ ~saved

C9_Witness ==
    /\ pc = "exited" /\ resize_result = "missing" /\ resize_calls = 1
    /\ convert_calls = 0

\* C10: the grid-size division is never evaluated with a zero divisor.
C10_NoZeroDivisor == ~div_zero

====
